---- MODULE Spec2Model ----
(***************************************************************************)
(* The trading PnL dashboard (src/main2.py, and its earlier variant        *)
(* src/main.py): one run of main() ingests trades (live API per symbol, or *)
(* the exported Excel file), then calculate_token_pnl groups them by       *)
(* symbol, converts BNB fees with one price lookup, rounds, sorts and      *)
(* appends a TOTAL row.                                                    *)
(*                                                                         *)
(* Numbers.  Python floats are modelled in fixed point: an unrounded       *)
(* amount v stands for the float v / Scale.  Scale is a power of two and   *)
(* prices are whole numbers, so every input, sum and product of the model  *)
(* is exactly representable as a double and the float arithmetic of the    *)
(* code is exact on them.  round(x, 2) of such an x is Python's correctly  *)
(* rounded result, ties to even.  Emitted 2-decimal fields are held in     *)
(* cents and the 5-decimal field in units of 0.00001.                      *)
(***************************************************************************)
EXTENDS Integers, Sequences, FiniteSets, TLC

VARIABLES
    version,    \* which source file runs: "main" (src/main.py) or "main2" (src/main2.py)
    page,       \* st.sidebar.radio selection
    pc,         \* position of main()
    symbols,    \* get_trades_since: the list get_all_symbols() returned
    i,          \* get_trades_since: index of the next symbol to fetch (1-based)
    results,    \* the API's answer for each symbol fetched so far
    file,       \* what the file ingestion found on disk
    trades,     \* the trade list being collected / passed to calculate_token_pnl
    log,        \* st.error / st.warning messages shown so far
    lookups,    \* number of client.ticker_price calls made in this run
    lookup,     \* outcome of the price lookup: "none", "ok", "ClientError", "Other"
    bnb_price,  \* calculate_token_pnl: bnb_price
    k,          \* calculate_token_pnl: index of the next trade of the loop
    data,       \* calculate_token_pnl: the dict, as its items in insertion order
    rows,       \* calculate_token_pnl: rows, before the sort
    df          \* the DataFrame returned by calculate_token_pnl, as its rows

vars == <<version, page, pc, symbols, i, results, file, trades, log,
          lookups, lookup, bnb_price, k, data, rows, df>>

----------------------------------------------------------------------------
(* Bounds and input universes *)

\* rows read from the export file in one run
MaxTrades == 2
\* trades one symbol's get_account_trades call returns
MaxFetch == 1

\* fixed-point denominator of unrounded amounts (a power of two)
Scale == 2 ^ 8

Versions == {"main", "main2"}
Pages == {"Today", "Month-to-Date"}

\* symbols the exchange lists (perpetual, ending in USDC)
LiveSymbols == {"AUSDC", "BUSDC"}
\* values of the Symbol column of the export file (any text)
FileSymbols == {"AUSDC", "BUSDC", "TOTAL"}
\* ascending string order of the symbols used
SymRank(s) == CASE s = "AUSDC" -> 1 [] s = "BUSDC" -> 2 [] OTHER -> 3

\* realizedPnl values: -0.125 and 0.25
RealizedVals == {-32, 64}
\* (commissionAsset, commission) pairs: 1/256 BNB, 1/64 BNB, 0.125 stable-coin
FeeOptions ==
    { [asset |-> "BNB", amt |-> 1], [asset |-> "BNB", amt |-> 4],
      [asset |-> "USDC", amt |-> 32], [asset |-> "USDT", amt |-> 32],
      [asset |-> "FDUSD", amt |-> 32] }
\* prices a successful ticker_price call returns (whole USDC per BNB)
PriceVals == {0, 2}

TradesOf(syms) ==
    { [symbol |-> s, realizedPnl |-> r, commission |-> f.amt, commissionAsset |-> f.asset] :
        s \in syms, r \in RealizedVals, f \in FeeOptions }

SeqsUpTo(S, n) == UNION { [1..m -> S] : m \in 0..n }

\* lists get_all_symbols can return
SymbolLists == { <<>>, <<"AUSDC">>, <<"AUSDC", "BUSDC">>, <<"BUSDC", "AUSDC">> }

RequiredCols == {"Date(UTC)", "Symbol", "Realized Profit", "Fee"}
NumCols == {"Price", "Quantity", "Amount", "Fee", "Realized Profit"}
AllCols == RequiredCols \cup NumCols \cup {"Fee Coin"}

Msg(level, about) == [level |-> level, about |-> about]

----------------------------------------------------------------------------
(* Initial state: main() is entered, nothing collected yet *)

Fresh(v, p) ==
    /\ version = v
    /\ page = p
    /\ pc = "start"
    /\ symbols = <<>>
    /\ i = 1
    /\ results = <<>>
    /\ file = [status |-> "unread", columns |-> {}]
    /\ trades = <<>>
    /\ log = <<>>
    /\ lookups = 0
    /\ lookup = "none"
    /\ bnb_price = 0
    /\ k = 1
    /\ data = <<>>
    /\ rows = <<>>
    /\ df = <<>>

Init == \E v \in Versions, p \in Pages : Fresh(v, p)

----------------------------------------------------------------------------
(* Ingestion, live path: get_all_symbols and get_trades_since *)

\* get_all_symbols: what it returns or raises, given the outcome of
\* client.exchange_info ("ok" with a list, "ClientError", "Other").
\* main2 catches ClientError, reports it and returns []; main does not.
get_all_symbols(v, outcome, list) ==
    IF outcome = "ok" THEN [raised |-> FALSE, ret |-> list, msgs |-> <<>>]
    ELSE IF outcome = "ClientError" /\ v = "main2"
         THEN [raised |-> FALSE, ret |-> <<>>, msgs |-> <<Msg("error", "symbols")>>]
    ELSE [raised |-> TRUE, ret |-> <<>>, msgs |-> <<>>]

\* get_trades_since, up to the loop: main2 warns and returns when the list is empty
NoSymbolsMsgs(v, list) ==
    IF v = "main2" /\ list = <<>> THEN <<Msg("warning", "no symbols")>> ELSE <<>>

GetAllSymbols ==
    /\ pc = "start"
    /\ page = "Today"
    /\ \E outcome \in {"ok", "ClientError", "Other"} :
       \E list \in (IF outcome = "ok" THEN SymbolLists ELSE {<<>>}) :
         LET r == get_all_symbols(version, outcome, list) IN
         /\ symbols' = r.ret
         /\ log' = log \o r.msgs \o (IF r.raised THEN <<>> ELSE NoSymbolsMsgs(version, r.ret))
         /\ pc' = IF r.raised THEN "crashed"
                  ELSE IF r.ret = <<>> THEN "ingested" ELSE "fetch"
    /\ UNCHANGED <<version, page, i, results, file, trades, lookups, lookup,
                   bnb_price, k, data, rows, df>>

\* the body of the try: trades.extend(symbol_trades)
Extend(trs, fetched) == trs \o fetched

\* KeepOnError throwing away what earlier symbols gave
KeepOnError_Discard(trs) == <<>>

\* the except ClientError branch leaves the list alone
KeepOnError(trs) == trs

\* whether the except branch calls st.warning: always in main, and in main2
\* unless the error text contains "No permission"
WarnsOnFetchError(v, noPermission) ==
    IF v = "main2" THEN ~noPermission ELSE TRUE

\* one iteration of the loop of get_trades_since over symbols[i]; the return
\* after the last symbol is part of the last iteration
FetchOk ==
    /\ pc = "fetch"
    /\ i <= Len(symbols)
    /\ \E fetched \in SeqsUpTo(TradesOf({symbols[i]}), MaxFetch) :
         /\ trades' = Extend(trades, fetched)
         /\ results' = Append(results, [kind |-> "ok", noPermission |-> FALSE,
                                        trades |-> fetched])
    /\ i' = i + 1
    /\ pc' = IF i = Len(symbols) THEN "ingested" ELSE "fetch"
    /\ UNCHANGED <<version, page, symbols, file, log, lookups, lookup,
                   bnb_price, k, data, rows, df>>

FetchClientError ==
    /\ pc = "fetch"
    /\ i <= Len(symbols)
    /\ \E noPermission \in BOOLEAN :
         /\ results' = Append(results, [kind |-> "ClientError",
                                        noPermission |-> noPermission, trades |-> <<>>])
         /\ log' = IF WarnsOnFetchError(version, noPermission)
                   THEN Append(log, Msg("warning", symbols[i]))
                   ELSE log
    /\ trades' = KeepOnError(trades)
    /\ i' = i + 1
    /\ pc' = IF i = Len(symbols) THEN "ingested" ELSE "fetch"
    /\ UNCHANGED <<version, page, symbols, file, lookups, lookup,
                   bnb_price, k, data, rows, df>>

\* any exception that is not a ClientError is not caught: it leaves
\* get_trades_since and main
FetchOtherError ==
    /\ pc = "fetch"
    /\ i <= Len(symbols)
    /\ results' = Append(results, [kind |-> "Other", noPermission |-> FALSE,
                                   trades |-> <<>>])
    /\ pc' = "crashed"
    /\ UNCHANGED <<version, page, symbols, i, file, trades, log, lookups, lookup,
                   bnb_price, k, data, rows, df>>

----------------------------------------------------------------------------
(* Ingestion, file path: get_trades_from_file *)

\* the column sets of the export file considered: complete, or one column short
ColumnSets ==
    {AllCols} \cup { AllCols \ {c} : c \in RequiredCols \cup {"Fee Coin", "Price"} }

Files ==
    { [status |-> "missing", columns |-> {}], [status |-> "unreadable", columns |-> {}] }
    \cup { [status |-> "ok", columns |-> c] : c \in ColumnSets }

\* a row of the sheet as the trade dict built from it (numeric cells already
\* normalised); main2 defaults the asset to "USDC" without a Fee Coin column
RowToTrade(f, row) ==
    [row EXCEPT !.commissionAsset =
        IF "Fee Coin" \in f.columns THEN row.commissionAsset ELSE "USDC"]

RowsToTrades(f, rs) == [j \in DOMAIN rs |-> RowToTrade(f, rs[j])]

\* src/main2.py get_trades_from_file: every failure is reported and gives []
get_trades_from_file2(f, rs) ==
    IF f.status = "missing"
    THEN [raised |-> FALSE, ret |-> <<>>, msgs |-> <<Msg("error", "file not found")>>]
    ELSE IF f.status = "unreadable" \/ "Date(UTC)" \notin f.columns
    THEN [raised |-> FALSE, ret |-> <<>>,
          msgs |-> <<Msg("info", "reading"), Msg("error", "read failed")>>]
    ELSE IF ~(RequiredCols \subseteq f.columns)
    THEN [raised |-> FALSE, ret |-> <<>>,
          msgs |-> <<Msg("info", "reading"), Msg("error", "missing columns"),
                     Msg("info", "available columns")>>]
    ELSE IF rs = <<>>
    THEN [raised |-> FALSE, ret |-> <<>>,
          msgs |-> <<Msg("info", "reading"), Msg("warning", "no trades in file")>>]
    ELSE [raised |-> FALSE, ret |-> RowsToTrades(f, rs), msgs |-> <<Msg("info", "reading")>>]

\* src/main.py get_trades_from_file: nothing is caught (rs are the rows left
\* by its date filter).  read_excel raises on
\* a missing or unreadable file and on a missing parse_dates column; df[col]
\* raises on a missing numeric column; row["Symbol"] and row["Fee Coin"] raise
\* in the first iteration of the row loop
get_trades_from_file1(f, rs) ==
    IF \/ f.status # "ok"
       \/ "Date(UTC)" \notin f.columns
       \/ ~(NumCols \subseteq f.columns)
       \/ (rs # <<>> /\ ~({"Symbol", "Fee Coin"} \subseteq f.columns))
    THEN [raised |-> TRUE, ret |-> <<>>, msgs |-> <<>>]
    ELSE [raised |-> FALSE, ret |-> rs, msgs |-> <<>>]

get_trades_from_file(v, f, rs) ==
    IF v = "main2" THEN get_trades_from_file2(f, rs) ELSE get_trades_from_file1(f, rs)

\* the sheets considered for a file: any rows when main2 can use the file,
\* otherwise an empty sheet or one sample row (the rows are then never read)
SampleRow ==
    [symbol |-> "AUSDC", realizedPnl |-> 64, commission |-> 32, commissionAsset |-> "USDC"]

Sheets(f) ==
    IF f.status = "ok" /\ RequiredCols \subseteq f.columns
    THEN SeqsUpTo(TradesOf(FileSymbols), MaxTrades)
    ELSE IF f.status = "ok" THEN {<<>>, <<SampleRow>>}
    ELSE {<<>>}

ReadFile ==
    /\ pc = "start"
    /\ page = "Month-to-Date"
    /\ \E f \in Files : \E rs \in Sheets(f) :
         LET r == get_trades_from_file(version, f, rs) IN
         /\ file' = f
         /\ trades' = r.ret
         /\ log' = log \o r.msgs
         /\ pc' = IF r.raised THEN "crashed" ELSE "ingested"
    /\ UNCHANGED <<version, page, symbols, i, results, lookups, lookup,
                   bnb_price, k, data, rows, df>>

----------------------------------------------------------------------------
(* main, between ingestion and aggregation *)

\* main: "if not trades: st.warning(...); return"
MainNoTrades ==
    /\ pc = "ingested"
    /\ trades = <<>>
    /\ log' = Append(log, Msg("warning", "no trades"))
    /\ pc' = "done"
    /\ UNCHANGED <<version, page, symbols, i, results, file, trades, lookups, lookup,
                   bnb_price, k, data, rows, df>>

\* main: trades is not empty, calculate_token_pnl(trades) is called
MainCalculate ==
    /\ pc = "ingested"
    /\ trades # <<>>
    /\ pc' = "calc"
    /\ UNCHANGED <<version, page, symbols, i, results, file, trades, log, lookups,
                   lookup, bnb_price, k, data, rows, df>>

----------------------------------------------------------------------------
(* get_price *)

\* the rate get_price returns when client.ticker_price raises ClientError
FallbackMain2 == 1
FallbackMain == 0
\* main2: the price substituted for a price of 0
FallbackBnbPrice == 600

FallbackRate(v) == IF v = "main2" THEN FallbackMain2 ELSE FallbackMain

\* get_price: the returned rate, given the lookup's outcome
get_price(v, outcome, price) ==
    IF outcome = "ok" THEN price ELSE FallbackRate(v)

\* calculate_token_pnl: main2 replaces a price of 0 by 600 and warns
AdjustPrice(v, price) ==
    IF v = "main2" /\ price = 0 THEN FallbackBnbPrice ELSE price

AdjustMsgs(v, price) ==
    IF v = "main2" /\ price = 0 THEN <<Msg("warning", "fallback BNB price")>> ELSE <<>>

\* calculate_token_pnl: "if not trades: return pd.DataFrame()"
CalcReturnEmpty ==
    /\ pc = "calc"
    /\ trades = <<>>
    /\ df' = <<>>
    /\ pc' = "done"
    /\ UNCHANGED <<version, page, symbols, i, results, file, trades, log, lookups,
                   lookup, bnb_price, k, data, rows>>

\* bnb_price = get_price("BNBUSDC") with a lookup that succeeds or raises
\* ClientError, and the price adjustment that follows it
GetPrice ==
    /\ pc = "calc"
    /\ trades # <<>>
    /\ \E outcome \in {"ok", "ClientError"} :
       \E price \in (IF outcome = "ok" THEN PriceVals ELSE {0}) :
         LET p == get_price(version, outcome, price) IN
         /\ lookup' = outcome
         /\ bnb_price' = AdjustPrice(version, p)
         /\ log' = log
                   \o (IF outcome = "ok" THEN <<>> ELSE <<Msg("warning", "price")>>)
                   \o AdjustMsgs(version, p)
    /\ lookups' = lookups + 1
    /\ data' = <<>>
    /\ k' = 1
    /\ pc' = "loop"
    /\ UNCHANGED <<version, page, symbols, i, results, file, trades, rows, df>>

\* a lookup failure that is not a ClientError leaves get_price,
\* calculate_token_pnl and main
GetPriceOtherError ==
    /\ pc = "calc"
    /\ trades # <<>>
    /\ lookup' = "Other"
    /\ lookups' = lookups + 1
    /\ pc' = "crashed"
    /\ UNCHANGED <<version, page, symbols, i, results, file, trades, log,
                   bnb_price, k, data, rows, df>>

----------------------------------------------------------------------------
(* calculate_token_pnl: grouping *)

ZeroAcc(sym) ==
    [sym |-> sym, realized_pnl |-> 0, bnb_fees |-> 0, usdc_fees |-> 0, trades |-> 0]

HasSym(d, sym) == \E j \in DOMAIN d : d[j].sym = sym

\* data[sym], or the record a first trade of sym would start from
Acc(d, sym) ==
    IF HasSym(d, sym) THEN d[CHOOSE j \in DOMAIN d : d[j].sym = sym] ELSE ZeroAcc(sym)

StableCoins == {"USDC", "USDT"}

\* AddToAcc with the count moved into the fee branches: a trade whose fee
\* asset is not recognised is not counted
AddToAcc_CountWithFee(a, t) ==
    [a EXCEPT !.realized_pnl = @ + t.realizedPnl,
              !.trades = IF t.commissionAsset \in StableCoins \cup {"BNB"} THEN @ + 1 ELSE @,
              !.bnb_fees = IF t.commissionAsset = "BNB" THEN @ + t.commission ELSE @,
              !.usdc_fees = IF t.commissionAsset # "BNB" /\ t.commissionAsset \in StableCoins
                            THEN @ + t.commission ELSE @]

\* AddToAcc with a plain else: every fee that is not BNB counts as a stable-coin fee
AddToAcc_ElseIsStable(a, t) ==
    [a EXCEPT !.realized_pnl = @ + t.realizedPnl,
              !.trades = @ + 1,
              !.bnb_fees = IF t.commissionAsset = "BNB" THEN @ + t.commission ELSE @,
              !.usdc_fees = IF t.commissionAsset # "BNB" THEN @ + t.commission ELSE @]

\* the accumulators of one symbol after one more trade of it
AddToAcc(a, t) ==
    [a EXCEPT !.realized_pnl = @ + t.realizedPnl,
              !.trades = @ + 1,
              !.bnb_fees = IF t.commissionAsset = "BNB" THEN @ + t.commission ELSE @,
              !.usdc_fees = IF t.commissionAsset # "BNB" /\ t.commissionAsset \in StableCoins
                            THEN @ + t.commission ELSE @]

\* the body of "for trade in trades": data after the trade
AddTrade(d, t) ==
    LET d1 == IF HasSym(d, t.symbol) THEN d ELSE Append(d, ZeroAcc(t.symbol))
        j == CHOOSE j \in DOMAIN d1 : d1[j].sym = t.symbol
    IN [d1 EXCEPT ![j] = AddToAcc(@, t)]

\* Accumulate with the price looked up again for every trade
Accumulate_LookupPerTrade ==
    /\ pc = "loop"
    /\ k <= Len(trades)
    /\ data' = AddTrade(data, trades[k])
    /\ k' = k + 1
    /\ lookups' = lookups + 1
    /\ UNCHANGED <<version, page, pc, symbols, i, results, file, trades, log,
                   lookup, bnb_price, rows, df>>

Accumulate ==
    /\ pc = "loop"
    /\ k <= Len(trades)
    /\ data' = AddTrade(data, trades[k])
    /\ k' = k + 1
    /\ UNCHANGED <<version, page, pc, symbols, i, results, file, trades, log, lookups,
                   lookup, bnb_price, rows, df>>

----------------------------------------------------------------------------
(* calculate_token_pnl: rounding, rows, sort, TOTAL *)

\* RoundHalfEven with ties going away from zero instead
RoundHalfEven_HalfAway(n, d) ==
    LET q == n \div d
        r == n % d
    IN IF 2 * r < d THEN q
       ELSE IF 2 * r > d THEN q + 1
       ELSE IF n < 0 THEN q ELSE q + 1

\* n / d rounded to the nearest integer, ties to the even one (d > 0)
RoundHalfEven(n, d) ==
    LET q == n \div d
        r == n % d
    IN IF 2 * r < d THEN q
       ELSE IF 2 * r > d THEN q + 1
       ELSE IF q % 2 = 0 THEN q ELSE q + 1

\* round(x, 2) of the float v / Scale, in cents
Round2(v) == RoundHalfEven(v * 100, Scale)
\* round(x, 5) of the float v / Scale, in units of 0.00001
Round5(v) == RoundHalfEven(v * 100000, Scale)
\* round(x, 2) of a sum of 2-decimal values (c cents), in cents
Round2Cents(c) == RoundHalfEven(c * 100, 100)
\* round(x, 5) of a sum of 5-decimal values (u units of 0.00001), in those units
Round5Units(u) == RoundHalfEven(u * 10, 10)

\* the unrounded derived amounts of one symbol
BnbFeesUsdc(vals, price) == vals.bnb_fees * price
TotalFees(vals, price) == BnbFeesUsdc(vals, price) + vals.usdc_fees
\* NetPnl with the converted BNB fees left out
NetPnl_IgnoresBnbFees(vals, price) == vals.realized_pnl - vals.usdc_fees
NetPnl(vals, price) == vals.realized_pnl - TotalFees(vals, price)

\* the dict appended to rows for one item of data
MakeRow(vals, price) ==
    [Token |-> vals.sym,
     RealizedPnL |-> Round2(vals.realized_pnl),
     BNBFees |-> Round5(vals.bnb_fees),
     BNBFeesUSDC |-> Round2(BnbFeesUsdc(vals, price)),
     DirectUSDCFees |-> Round2(vals.usdc_fees),
     TotalFeesUSDC |-> Round2(TotalFees(vals, price)),
     NetPnL |-> Round2(NetPnl(vals, price)),
     Trades |-> vals.trades]

\* "for sym, vals in data.items()": one row per item, in insertion order
MakeRows(d, price) == [j \in DOMAIN d |-> MakeRow(d[j], price)]

Perms(n) == { p \in [1..n -> 1..n] : \A a, b \in 1..n : p[a] = p[b] => a = b }

Descending(s) == \A a, b \in DOMAIN s : a < b => s[a].NetPnL >= s[b].NetPnL

\* SortOutcomes without the sort
SortOutcomes_Unsorted(v, rs) == {rs}

\* df.sort_values("Net PnL", ascending=False) in main2: the default sort kind
\* is not stable, so rows of equal Net PnL may come out in any order; main
\* does not sort
SortOutcomes(v, rs) ==
    IF v = "main2"
    THEN { s \in { [j \in DOMAIN rs |-> rs[p[j]]] : p \in Perms(Len(rs)) } : Descending(s) }
    ELSE {rs}

RECURSIVE SumField(_, _, _)
\* the sum of field f over the first n rows of s
SumField(s, f, n) == IF n = 0 THEN 0 ELSE SumField(s, f, n - 1) + s[n][f]

ColumnSum(s, f) == SumField(s, f, Len(s))

\* TotalRow with Net PnL derived again from the totals instead of summed
TotalRow_Rederived(v, s) ==
    [Token |-> "TOTAL",
     RealizedPnL |-> ColumnSum(s, "RealizedPnL"),
     BNBFees |-> ColumnSum(s, "BNBFees"),
     BNBFeesUSDC |-> ColumnSum(s, "BNBFeesUSDC"),
     DirectUSDCFees |-> ColumnSum(s, "DirectUSDCFees"),
     TotalFeesUSDC |-> ColumnSum(s, "TotalFeesUSDC"),
     NetPnL |-> ColumnSum(s, "RealizedPnL") - ColumnSum(s, "TotalFeesUSDC"),
     Trades |-> ColumnSum(s, "Trades")]

\* the total dict: column sums of the rows, rounded again in main2
TotalRow(v, s) ==
    IF v = "main2"
    THEN [Token |-> "TOTAL",
          RealizedPnL |-> Round2Cents(ColumnSum(s, "RealizedPnL")),
          BNBFees |-> Round5Units(ColumnSum(s, "BNBFees")),
          BNBFeesUSDC |-> Round2Cents(ColumnSum(s, "BNBFeesUSDC")),
          DirectUSDCFees |-> Round2Cents(ColumnSum(s, "DirectUSDCFees")),
          TotalFeesUSDC |-> Round2Cents(ColumnSum(s, "TotalFeesUSDC")),
          NetPnL |-> Round2Cents(ColumnSum(s, "NetPnL")),
          Trades |-> ColumnSum(s, "Trades")]
    ELSE [Token |-> "TOTAL",
          RealizedPnL |-> ColumnSum(s, "RealizedPnL"),
          BNBFees |-> ColumnSum(s, "BNBFees"),
          BNBFeesUSDC |-> ColumnSum(s, "BNBFeesUSDC"),
          DirectUSDCFees |-> ColumnSum(s, "DirectUSDCFees"),
          TotalFeesUSDC |-> ColumnSum(s, "TotalFeesUSDC"),
          NetPnL |-> ColumnSum(s, "NetPnL"),
          Trades |-> ColumnSum(s, "Trades")]

\* pd.concat([df, pd.DataFrame([total])], ignore_index=True)
WithTotal(v, s) == IF s = <<>> THEN s ELSE Append(s, TotalRow(v, s))

\* the end of calculate_token_pnl, after the trade loop: rows, sort, TOTAL,
\* return; main then reads the totals from the last row
Emit ==
    /\ pc = "loop"
    /\ k > Len(trades)
    /\ rows' = MakeRows(data, bnb_price)
    /\ \E s \in SortOutcomes(version, rows') : df' = WithTotal(version, s)
    /\ pc' = "done"
    /\ UNCHANGED <<version, page, symbols, i, results, file, trades, log, lookups,
                   lookup, bnb_price, k, data>>

\* the script is run again from the top (st.rerun, or any widget change)
Rerun ==
    /\ pc \in {"done", "crashed"}
    /\ page' \in Pages
    /\ pc' = "start"
    /\ symbols' = <<>>
    /\ i' = 1
    /\ results' = <<>>
    /\ file' = [status |-> "unread", columns |-> {}]
    /\ trades' = <<>>
    /\ log' = <<>>
    /\ lookups' = 0
    /\ lookup' = "none"
    /\ bnb_price' = 0
    /\ k' = 1
    /\ data' = <<>>
    /\ rows' = <<>>
    /\ df' = <<>>
    /\ UNCHANGED version

----------------------------------------------------------------------------
(* Specifications *)

\* one run of main() after another
Next ==
    \/ GetAllSymbols
    \/ FetchOk
    \/ FetchClientError
    \/ FetchOtherError
    \/ ReadFile
    \/ MainNoTrades
    \/ MainCalculate
    \/ GetPrice
    \/ GetPriceOtherError
    \/ Accumulate
    \/ Emit
    \/ Rerun

Spec == Init /\ [][Next]_vars

\* calculate_token_pnl called on its own with any trade list
InitCalc ==
    \E v \in Versions : \E trs \in SeqsUpTo(TradesOf(FileSymbols), MaxTrades) :
        /\ version = v
        /\ page = "Today"
        /\ pc = "calc"
        /\ symbols = <<>>
        /\ i = 1
        /\ results = <<>>
        /\ file = [status |-> "unread", columns |-> {}]
        /\ trades = trs
        /\ log = <<>>
        /\ lookups = 0
        /\ lookup = "none"
        /\ bnb_price = 0
        /\ k = 1
        /\ data = <<>>
        /\ rows = <<>>
        /\ df = <<>>

NextCalc ==
    \/ CalcReturnEmpty
    \/ GetPrice
    \/ GetPriceOtherError
    \/ Accumulate
    \/ Emit

SpecCalc == InitCalc /\ [][NextCalc]_vars

----------------------------------------------------------------------------
(* Properties *)

\* the per-symbol rows of a returned frame: all but its last row
SymbolRows(d) == IF d = <<>> THEN <<>> ELSE SubSeq(d, 1, Len(d) - 1)

LastRow(d) == d[Len(d)]

Abs(x) == IF x < 0 THEN -x ELSE x

\* calculate_token_pnl has returned a frame for a non-empty trade list
Returned == pc = "done" /\ trades # <<>>

\* C1: for a non-empty trade list, the Trades of the per-symbol rows sum to
\* the Trades of the TOTAL row, and both equal the number of input trades.
C1_TradeCountConserved ==
    Returned =>
        /\ df # <<>>
        /\ ColumnSum(SymbolRows(df), "Trades") = LastRow(df).Trades
        /\ LastRow(df).Trades = Len(trades)

\* C1 witness: two trades of one symbol, one of them with an unrecognised
\* fee asset, have been aggregated into one row and the TOTAL row.
C1_Witness ==
    /\ Returned
    /\ Len(trades) = 2
    /\ Len(df) = 2
    /\ \E j \in DOMAIN trades : trades[j].commissionAsset = "FDUSD"
    /\ \E j \in DOMAIN trades : trades[j].commissionAsset = "BNB"

\* C2 (as claimed): in main2 every emitted row, TOTAL included, has
\* Net PnL = Realized PnL - Total Fees (USDC) on the rounded values.
C2_NetIsRealizedMinusFees ==
    (Returned /\ version = "main2") =>
        \A j \in DOMAIN df : df[j].NetPnL = df[j].RealizedPnL - df[j].TotalFeesUSDC

\* C2 (amended): in main2 each per-symbol row's Net PnL is the rounding of the
\* unrounded realized_pnl - total_fees, so it differs from the row's rounded
\* Realized PnL - Total Fees (USDC) by at most one cent; the TOTAL row's
\* difference is at most one cent per symbol row.
C2_NetWithinOneCent ==
    (Returned /\ version = "main2") =>
        /\ \A j \in DOMAIN SymbolRows(df) :
             LET r == df[j]
                 a == Acc(data, r.Token)
             IN /\ r.NetPnL = Round2(a.realized_pnl - (a.bnb_fees * bnb_price + a.usdc_fees))
                /\ Abs(r.NetPnL - (r.RealizedPnL - r.TotalFeesUSDC)) <= 1
        /\ LET t == LastRow(df)
           IN Abs(t.NetPnL - (t.RealizedPnL - t.TotalFeesUSDC)) <= Len(df) - 1

\* C2 witness: main2 has emitted a per-symbol row whose rounded Net PnL is one
\* cent away from its rounded Realized PnL - Total Fees (USDC).
C2_Witness ==
    /\ Returned
    /\ version = "main2"
    /\ \E j \in DOMAIN SymbolRows(df) :
         Abs(df[j].NetPnL - (df[j].RealizedPnL - df[j].TotalFeesUSDC)) = 1

NumericFields ==
    {"RealizedPnL", "BNBFees", "BNBFeesUSDC", "DirectUSDCFees", "TotalFeesUSDC",
     "NetPnL", "Trades"}

\* C3: in main2 every numeric field of the TOTAL row is the sum of that
\* field's rounded values over the per-symbol rows.
C3_TotalIsSumOfRoundedRows ==
    (Returned /\ version = "main2") =>
        \A f \in NumericFields : LastRow(df)[f] = ColumnSum(SymbolRows(df), f)

\* the unrounded net PnL of all symbols together
RECURSIVE UnroundedNet(_, _, _)
UnroundedNet(d, price, n) ==
    IF n = 0 THEN 0
    ELSE UnroundedNet(d, price, n - 1)
         + (d[n].realized_pnl - (d[n].bnb_fees * price + d[n].usdc_fees))

\* C3 witness: main2 has totalled two symbol rows whose rounded Net PnL sum
\* differs from the rounding of the unrounded overall net PnL.
C3_Witness ==
    /\ Returned
    /\ version = "main2"
    /\ Len(df) = 3
    /\ LastRow(df).NetPnL # Round2(UnroundedNet(data, bnb_price, Len(data)))

\* C4 (as claimed): in main2 the per-symbol rows are in Net PnL descending
\* order, rows of equal Net PnL in ascending symbol order.
C4_SortedWithSymbolTieBreak ==
    (Returned /\ version = "main2") =>
        \A a, b \in DOMAIN SymbolRows(df) :
            a < b => \/ df[a].NetPnL > df[b].NetPnL
                     \/ /\ df[a].NetPnL = df[b].NetPnL
                        /\ SymRank(df[a].Token) < SymRank(df[b].Token)

\* C4 (amended): in main2 the per-symbol rows are in Net PnL descending
\* order (each row's Net PnL is at least the next row's); the order of rows
\* of equal Net PnL is not fixed by the symbol.
C4_SortedDescending ==
    (Returned /\ version = "main2") =>
        \A a, b \in DOMAIN SymbolRows(df) : a < b => df[a].NetPnL >= df[b].NetPnL

\* C4 witness: main2 has returned two symbol rows of different Net PnL in an
\* order other than the one the symbols were first encountered in.
C4_Witness ==
    /\ Returned
    /\ version = "main2"
    /\ Len(df) = 3
    /\ df[1].NetPnL > df[2].NetPnL
    /\ rows[1].Token = df[2].Token

Logged(level, about) == \E j \in DOMAIN log : log[j] = Msg(level, about)

\* C5: after a price lookup that failed with a ClientError a
\* warning is shown, the rate multiplied into bnb_fees is not 0, and no
\* returned per-symbol row with non-zero BNB fees shows BNB Fees (USDC) = 0.
C5_FallbackRateNeverZero ==
    lookup = "ClientError" =>
        /\ Logged("warning", "price")
        /\ bnb_price # 0
        /\ pc = "done" =>
             \A j \in DOMAIN SymbolRows(df) :
                 Acc(data, df[j].Token).bnb_fees # 0 => df[j].BNBFeesUSDC # 0

\* C6 (as claimed): every finished run of main has made exactly one price lookup.
C6_ExactlyOneLookup == pc = "done" => lookups = 1

\* C6 (amended): a run of main makes at most one price lookup, none while
\* trades are still being collected and none at all when ingestion gave no
\* trades; a run that goes on to aggregate a non-empty trade list makes
\* exactly one, after ingestion has finished.
C6_OneLookupAfterIngestion ==
    /\ lookups <= 1
    /\ pc \in {"start", "fetch", "ingested", "calc"} => lookups = 0
    /\ lookups = 1 => (pc \in {"loop", "done", "crashed"} /\ trades # <<>>)
    /\ pc \in {"loop", "done"} => lookups = (IF trades = <<>> THEN 0 ELSE 1)

\* C6 witness: a run over two trades of two symbols has finished with one lookup.
C6_Witness ==
    /\ pc = "done"
    /\ Len(trades) = 2
    /\ Len(df) = 3
    /\ lookups = 1

RECURSIVE ConcatOk(_, _)
\* the trades of the successful fetches among the first n results, in order
ConcatOk(rs, n) ==
    IF n = 0 THEN <<>>
    ELSE ConcatOk(rs, n - 1) \o (IF rs[n].kind = "ok" THEN rs[n].trades ELSE <<>>)

\* get_trades_since is in its loop or has returned
InLiveIngestion == page = "Today" /\ pc \in {"fetch", "ingested"}

\* a fetch raised something other than ClientError
FetchRaisedOther == \E j \in DOMAIN results : results[j].kind = "Other"

\* C7 (as claimed): a failed fetch of one symbol is shown as a warning, and
\* the list is the concatenation of the successful fetches.
C7_FailureWarnedAndSkipped ==
    InLiveIngestion =>
        /\ trades = ConcatOk(results, Len(results))
        /\ \A j \in DOMAIN results :
             results[j].kind = "ClientError" => Logged("warning", symbols[j])

\* C7 (amended): a ClientError fetching one symbol skips only that symbol:
\* the loop goes on to every remaining symbol and the list is the
\* concatenation, in symbol order, of the successful fetches; the failure is
\* shown as a warning, except that main2 shows none when the error text
\* contains "No permission".  An exception that is not a ClientError is not
\* caught: it ends get_trades_since and the run.
C7_ClientErrorSkipsOnlyThatSymbol ==
    /\ FetchRaisedOther => pc = "crashed"
    /\ InLiveIngestion =>
        /\ trades = ConcatOk(results, Len(results))
        /\ Len(results) = i - 1
        /\ (pc = "ingested" /\ symbols # <<>>) => Len(results) = Len(symbols)
        /\ \A j \in DOMAIN results :
             /\ results[j].kind \in {"ok", "ClientError"}
             /\ Logged("warning", symbols[j]) <=>
                    /\ results[j].kind = "ClientError"
                    /\ (version = "main" \/ ~results[j].noPermission)

\* C7 witness: the first symbol's fetch gave a trade, the second symbol's
\* fetch failed, and get_trades_since returned the first symbol's trade.
C7_Witness ==
    /\ InLiveIngestion
    /\ pc = "ingested"
    /\ Len(results) = 2
    /\ results[1].kind = "ok"
    /\ results[1].trades # <<>>
    /\ results[2].kind = "ClientError"
    /\ trades = results[1].trades

TotalRowCount(d) == Cardinality({ j \in DOMAIN d : d[j].Token = "TOTAL" })

\* C8: an empty trade list gives an empty frame; a non-empty one gives a
\* frame with exactly one row whose Token is "TOTAL", the last, whatever the
\* symbols of the trades.
C8_ExactlyOneTotalRow ==
    pc = "done" =>
        /\ trades = <<>> => df = <<>>
        /\ trades # <<>> =>
             /\ df # <<>>
             /\ LastRow(df).Token = "TOTAL"
             /\ TotalRowCount(df) = 1

\* C9: a trade whose commissionAsset is not BNB, USDC or USDT adds 1 to its
\* symbol's trade count and its realizedPnl to the symbol's realized PnL, and
\* changes neither fee accumulator of that symbol nor anything of another symbol.
C9_UnrecognisedAssetFrame ==
    [][ (pc = "loop" /\ k <= Len(trades) /\ k' = k + 1
         /\ trades[k].commissionAsset \notin {"BNB", "USDC", "USDT"}) =>
          LET t == trades[k]
              old == Acc(data, t.symbol)
              new == Acc(data', t.symbol)
          IN /\ HasSym(data', t.symbol)
             /\ new.trades = old.trades + 1
             /\ new.realized_pnl = old.realized_pnl + t.realizedPnl
             /\ new.bnb_fees = old.bnb_fees
             /\ new.usdc_fees = old.usdc_fees
             /\ \A j \in DOMAIN data : data[j].sym # t.symbol => data'[j] = data[j]
             /\ \A s \in FileSymbols \ {t.symbol} : HasSym(data', s) <=> HasSym(data, s)
      ]_vars

\* C9 witness: the loop has just processed a trade with an unrecognised fee
\* asset for a symbol that already had a BNB fee recorded.
C9_Witness ==
    /\ pc = "loop"
    /\ k = 3
    /\ trades[1].symbol = trades[2].symbol
    /\ trades[1].commissionAsset = "BNB"
    /\ trades[2].commissionAsset = "FDUSD"
    /\ Acc(data, trades[2].symbol).trades = 2
    /\ Acc(data, trades[2].symbol).bnb_fees = trades[1].commission

\* the export file is missing or unreadable, or lacks a mandatory column
FileBad ==
    \/ file.status \in {"missing", "unreadable"}
    \/ file.status = "ok" /\ ~(RequiredCols \subseteq file.columns)

\* C10: when the export file is missing, unreadable or lacks a
\* mandatory column, no exception escapes, an error is shown, the trade set
\* is empty and the report has no rows.
C10_FileFailureGivesEmptyReport ==
    (page = "Month-to-Date" /\ FileBad) =>
        /\ pc # "crashed"
        /\ \E j \in DOMAIN log : log[j].level = "error"
        /\ trades = <<>>
        /\ df = <<>>

\* r is an integer nearest to n / d
Nearest(r, n, d) == 2 * Abs(r * d - n) <= d

\* n / d lies exactly halfway between two integers
IsTie(n, d) == (2 * n) % d = 0 /\ n % d # 0

\* r is n / d rounded half away from zero
IsHalfAway(r, n, d) == Nearest(r, n, d) /\ (IsTie(n, d) => Abs(r) * d > Abs(n))

\* r is n / d rounded half to even
IsHalfEven(r, n, d) == Nearest(r, n, d) /\ (IsTie(n, d) => r % 2 = 0)

\* the unrounded amounts behind the fields of the row of accumulators a, each
\* as <<field, numerator>> over Scale, in cents or (BNB Fees) units of 0.00001
Unrounded(a, price) ==
    { <<"RealizedPnL", a.realized_pnl * 100>>,
      <<"BNBFees", a.bnb_fees * 100000>>,
      <<"BNBFeesUSDC", a.bnb_fees * price * 100>>,
      <<"DirectUSDCFees", a.usdc_fees * 100>>,
      <<"TotalFeesUSDC", (a.bnb_fees * price + a.usdc_fees) * 100>>,
      <<"NetPnL", (a.realized_pnl - (a.bnb_fees * price + a.usdc_fees)) * 100>> }

\* C11 (as claimed): every monetary field of a per-symbol row is the
\* accumulated value rounded to 2 decimals (BNB Fees: 5 decimals), a value
\* exactly halfway going to the result of larger magnitude.
C11_RoundHalfAwayFromZero ==
    Returned =>
        \A j \in DOMAIN SymbolRows(df) :
            \A u \in Unrounded(Acc(data, df[j].Token), bnb_price) :
                IsHalfAway(df[j][u[1]], u[2], Scale)

\* C11 (amended): every monetary field of a per-symbol row is the accumulated
\* value rounded to the nearest value of 2 decimals (BNB Fees: 5 decimals); a
\* value exactly halfway goes to the result whose last digit is even, for
\* positive and negative values alike.
C11_RoundHalfEven ==
    Returned =>
        \A j \in DOMAIN SymbolRows(df) :
            \A u \in Unrounded(Acc(data, df[j].Token), bnb_price) :
                IsHalfEven(df[j][u[1]], u[2], Scale)

\* C11 witness: a row has been emitted whose realized PnL -0.125 and BNB fees
\* 0.015625 are both exactly halfway, shown as -0.12 and 0.01562.
C11_Witness ==
    /\ Returned
    /\ \E j \in DOMAIN SymbolRows(df) :
         LET a == Acc(data, df[j].Token)
         IN /\ IsTie(a.realized_pnl * 100, Scale)
            /\ a.realized_pnl < 0
            /\ df[j].RealizedPnL = -12
            /\ IsTie(a.bnb_fees * 100000, Scale)
            /\ df[j].BNBFees = 1562

====
